---- MODULE Spec2Model ----
(***************************************************************************)
(* A model of cbpro/order_book.py: the OrderBook class, a local mirror of  *)
(* an exchange's level-3 order book kept up to date from a sequenced feed. *)
(*                                                                         *)
(* A message is a Python dict: a function whose domain is the set of keys  *)
(* it carries, so that `'price' in message' and message.get(k, default)    *)
(* are modelled as they are written.  Prices and sizes travel as decimal   *)
(* strings and are converted by Decimal(); a Decimal is modelled by its    *)
(* numeric value, so that "1" and "1.0" convert to the same number.        *)
(***************************************************************************)
EXTENDS Integers, Sequences, FiniteSets, TLC

VARIABLES
    bids,            \* self._bids : SortedDict price -> list of orders
    asks,            \* self._asks : SortedDict price -> list of orders
    sequence,        \* self._sequence
    current_ticker,  \* self._current_ticker
    ret,             \* what the last on_message call returned or raised
    primitive,       \* the mutation primitive the last on_message call ran
    resyncs,         \* how many times the last on_message call ran reset_book
    fetched,         \* what the snapshot service answered in that call
    fatal,           \* a match assertion failed and no resync has completed since
    failed,          \* a snapshot fetch failed and no resync has completed since
    pc,              \* where a thread calling get_current_book stands
    it,              \* the iterator of the loop that thread is in
    result,          \* the local `result' of get_current_book
    seen,            \* the versions the book has had since that call began
    writes           \* the calls that changed the object since that call began

vars == <<bids, asks, sequence, current_ticker, ret, primitive, resyncs, fetched, fatal,
          failed, pc, it, result, seen, writes>>

(***************************************************************************)
(* Bounds of the model.                                                    *)
(***************************************************************************)
\* the feed is followed up to this sequence number
MaxSeq == 2
\* at most this many calls of on_message or on_open run while one call of
\* get_current_book is under way
MaxWrites == 1

(***************************************************************************)
(* Values.                                                                 *)
(***************************************************************************)
Tokens == {"1", "1.0", "2"}
SizeTokens == {"1", "2"}
Ids == {"a", "b"}
Sides == {"buy", "sell"}
Product == "BTC-USD"
NoTicker == "None"

\* decimal.Decimal(s): the number the string denotes
Decimal(s) ==
    CASE s = "1" -> 1
      [] s = "1.0" -> 1
      [] s = "2" -> 2

\* dict.get(key, default)
Get(d, key, default) == IF key \in DOMAIN d THEN d[key] ELSE default

(***************************************************************************)
(* Return values of on_message and of the primitives.                      *)
(*   a tuple (price, size): price is <<p>>, or << >> for None              *)
(***************************************************************************)
Tuple(p, s) == [kind |-> "tuple", price |-> <<p>>, size |-> s, text |-> ""]
TupleNone(s) == [kind |-> "tuple", price |-> <<>>, size |-> s, text |-> ""]
Str(t) == [kind |-> "str", price |-> <<>>, size |-> 0, text |-> t]
None == [kind |-> "None", price |-> <<>>, size |-> 0, text |-> ""]
Raise(e) == [kind |-> "raise", price |-> <<>>, size |-> 0, text |-> e]
NoCall == [kind |-> "nocall", price |-> <<>>, size |-> 0, text |-> ""]

(***************************************************************************)
(* The SortedDict accessors.                                               *)
(***************************************************************************)
EmptyDict == [p \in {} |-> <<>>]

\* get_bids / get_asks: dict.get(price); None is `price \notin DOMAIN d'
Has(d, price) == price \in DOMAIN d

\* set_bids / set_asks
set(d, price, orders) ==
    [p \in (DOMAIN d) \cup {price} |-> IF p = price THEN orders ELSE d[p]]

\* remove_bids / remove_asks
del(d, price) == [p \in (DOMAIN d) \ {price} |-> d[p]]

\* `not orders' for the result of get_bids / get_asks: None or an empty list
Falsy(d, price) == ~Has(d, price) \/ d[price] = <<>>

\* the result of a primitive: the two indexes afterwards and what it returned
Result(b, a, r) == [bids |-> b, asks |-> a, ret |-> r]

(***************************************************************************)
(* OrderBook.add                                                           *)
(***************************************************************************)
\* add with insert(0, order) for append(order): the new order goes to the
\* head of the queue
add_at_head(b, a, order) ==
    IF ~("order_id" \in DOMAIN order \/ "id" \in DOMAIN order)
       \/ "price" \notin DOMAIN order
       \/ ~("size" \in DOMAIN order \/ "remaining_size" \in DOMAIN order)
    THEN Result(b, a, Raise("KeyError"))
    ELSE
    LET o == [id |-> IF "order_id" \in DOMAIN order THEN order["order_id"]
                     ELSE order["id"],
              side |-> order["side"],
              price |-> Decimal(order["price"]),
              size |-> Decimal(IF "size" \in DOMAIN order THEN order["size"]
                               ELSE order["remaining_size"])]
    IN  IF o.side = "buy"
        THEN Result(set(b, o.price,
                        IF ~Has(b, o.price) THEN <<o>> ELSE <<o>> \o b[o.price]),
                    a, Tuple(o.price, o.size))
        ELSE Result(b,
                    set(a, o.price,
                        IF ~Has(a, o.price) THEN <<o>> ELSE <<o>> \o a[o.price]),
                    Tuple(o.price, o.size))

add(b, a, order) ==
    IF ~("order_id" \in DOMAIN order \/ "id" \in DOMAIN order)
       \/ "price" \notin DOMAIN order
       \/ ~("size" \in DOMAIN order \/ "remaining_size" \in DOMAIN order)
    THEN Result(b, a, Raise("KeyError"))
    ELSE
    LET o == [id |-> IF "order_id" \in DOMAIN order THEN order["order_id"]
                     ELSE order["id"],
              side |-> order["side"],
              price |-> Decimal(order["price"]),
              size |-> Decimal(IF "size" \in DOMAIN order THEN order["size"]
                               ELSE order["remaining_size"])]
    IN  IF o.side = "buy"
        THEN Result(set(b, o.price,
                        IF ~Has(b, o.price) THEN <<o>> ELSE Append(b[o.price], o)),
                    a, Tuple(o.price, o.size))
        ELSE Result(b,
                    set(a, o.price,
                        IF ~Has(a, o.price) THEN <<o>> ELSE Append(a[o.price], o)),
                    Tuple(o.price, o.size))

(***************************************************************************)
(* OrderBook.remove                                                        *)
(***************************************************************************)
\* the loop without lines 148-150 and 166-168: the size stays the event's
removed_size_of_event(orders, removal_id, size) == size

\* the loop's running `size': the event's size, or when that is 0 the size
\* of the first matching order that is not 0
RECURSIVE removed_size(_, _, _)
removed_size(orders, removal_id, size) ==
    IF orders = <<>> THEN size
    ELSE removed_size(Tail(orders), removal_id,
                      IF Head(orders).id = removal_id /\ size = 0
                      THEN Head(orders).size ELSE size)

\* the loop over one side's level: the index afterwards
remove_level(d, price, removal_id) ==
    LET kept == SelectSeq(d[price], LAMBDA o : o.id # removal_id)
    IN  IF Len(kept) > 0 THEN set(d, price, kept) ELSE del(d, price)

remove(b, a, order) ==
    LET removal_id == Get(order, "order_id", "None")
        has_price == "price" \in DOMAIN order
        price == IF has_price THEN Decimal(order["price"]) ELSE -1
        size0 == IF "size" \in DOMAIN order THEN Decimal(order["size"]) ELSE 0
        d == IF order["side"] = "buy" THEN b ELSE a
        level == IF Has(d, price) THEN d[price] ELSE <<>>
        found_order == \E i \in 1..Len(level) : level[i].id = removal_id
        size == IF found_order THEN removed_size(level, removal_id, size0) ELSE 0
        r == IF price = -1 THEN TupleNone(-size) ELSE Tuple(price, -size)
    IN  IF order["side"] = "buy"
        THEN Result(IF Has(b, price) THEN remove_level(b, price, removal_id) ELSE b,
                    a, r)
        ELSE Result(b,
                    IF Has(a, price) THEN remove_level(a, price, removal_id) ELSE a,
                    r)

(***************************************************************************)
(* OrderBook.match                                                         *)
(***************************************************************************)
\* the branch without lines 194-195 and 204-205: the head is always
\* decremented in place
match_level_decrementing(d, price, size) ==
    set(d, price, [d[price] EXCEPT ![1].size = @ - size])

\* one side's branch: orders[0]['size'] == size pops the head, otherwise
\* the head's size is decremented in place
match_level(d, price, size) ==
    LET orders == d[price]
    IN  IF orders[1].size = size
        THEN set(d, price, Tail(orders))
        ELSE set(d, price, [orders EXCEPT ![1].size = @ - size])

match(b, a, order) ==
    IF "size" \notin DOMAIN order \/ "price" \notin DOMAIN order
    THEN Result(b, a, Raise("KeyError"))
    ELSE
    LET size == Decimal(order["size"])
        price == Decimal(order["price"])
    IN  IF order["side"] = "buy"
        THEN IF Falsy(b, price)
             THEN Result(b, a, Str("Failed to find bids at this price for match"))
             ELSE IF b[price][1].id # order["maker_order_id"]
             THEN Result(b, a, Raise("AssertionError"))
             ELSE Result(match_level(b, price, size), a, Tuple(price, -size))
        ELSE IF Falsy(a, price)
             THEN Result(b, a, Str("Failed to find asks at this price for match"))
             ELSE IF a[price][1].id # order["maker_order_id"]
             THEN Result(b, a, Raise("AssertionError"))
             ELSE Result(b, match_level(a, price, size), Tuple(price, -size))

(***************************************************************************)
(* OrderBook.change                                                        *)
(***************************************************************************)
\* [o['id'] for o in orders].index(order_id): the first position of the id
index(orders, id) ==
    CHOOSE i \in 1..Len(orders) :
        /\ orders[i].id = id
        /\ \A j \in 1..(i - 1) : orders[j].id # id

\* any(o['id'] == order_id for o in orders)
any_id(orders, id) == \E i \in 1..Len(orders) : orders[i].id = id

\* the branch with the resized order taken out and appended again
change_level_requeued(d, price, id, new_size) ==
    LET orders == d[price]
        i == index(orders, id)
    IN  set(d, price,
            Append(SubSeq(orders, 1, i - 1) \o SubSeq(orders, i + 1, Len(orders)),
                   [orders[i] EXCEPT !.size = new_size]))

\* lines 227-230 and 235-238: the size is overwritten in place
change_level(d, price, id, new_size) ==
    set(d, price, [d[price] EXCEPT ![index(d[price], id)].size = new_size])

change(b, a, order) ==
    IF "new_size" \notin DOMAIN order
    THEN Result(b, a, Str("Failed to find new size at this price for change"))
    ELSE IF "price" \notin DOMAIN order
    THEN Result(b, a, Str("Failed to find new price for change"))
    ELSE
    LET new_size == Decimal(order["new_size"])
        price == Decimal(order["price"])
        id == order["order_id"]
    IN  IF order["side"] = "buy"
        THEN IF ~Has(b, price) \/ ~any_id(b[price], id)
             THEN Result(b, a, Str("Failed to find bids at this price for change"))
             ELSE Result(change_level(b, price, id, new_size), a,
                         Tuple(price, new_size - b[price][index(b[price], id)].size))
        ELSE IF ~Has(a, price) \/ ~any_id(a[price], id)
             THEN Result(b, a, Str("Failed to find asks at this price for change"))
             ELSE Result(b, change_level(a, price, id, new_size),
                         Tuple(price, new_size - a[price][index(a[price], id)].size))

(***************************************************************************)
(* The snapshot service: PublicClient.get_product_order_book(level=3).     *)
(* A response carries a sequence number and, per side, rows                *)
(* [price, size, id] of decimal strings; the call may also fail.           *)
(***************************************************************************)
BidRows == {<<"1", "2", "a">>, <<"1.0", "1", "b">>}
AskRows == {<<"2", "1", "b">>, <<"2", "2", "a">>}
SnapSeqs == {0, 1}

\* the lists of distinct rows of S
Listings(S) ==
    {l \in UNION {[1..k -> S] : k \in 0..Cardinality(S)} :
        \A i, j \in DOMAIN l : i # j => l[i] # l[j]}

\* the responses: an order id is listed once, on one side
Responses ==
    {r \in {[ok |-> TRUE, sequence |-> n, bids |-> bs, asks |-> as] :
                n \in SnapSeqs, bs \in Listings(BidRows), as \in Listings(AskRows)} :
        /\ \A i, j \in DOMAIN r.bids : i # j => r.bids[i][3] # r.bids[j][3]
        /\ \A i, j \in DOMAIN r.asks : i # j => r.asks[i][3] # r.asks[j][3]
        /\ \A i \in DOMAIN r.bids : \A j \in DOMAIN r.asks : r.bids[i][3] # r.asks[j][3]}

FetchError == [ok |-> FALSE, error |-> "fetch failed"]
NoFetch == [ok |-> FALSE, error |-> "not called"]

Fetches == Responses \cup {FetchError}

(***************************************************************************)
(* OrderBook.reset_book.  The indexes are emptied, then the snapshot is    *)
(* fetched, then its rows are replayed through add, bids first; the        *)
(* sequence is set last.  A failed fetch propagates out of reset_book      *)
(* with the indexes empty and the sequence as it was.                      *)
(***************************************************************************)
RECURSIVE replay(_, _, _, _)
replay(b, a, rows, side) ==
    IF rows = <<>> THEN Result(b, a, None)
    ELSE LET r == add(b, a, [id |-> Head(rows)[3], side |-> side,
                             price |-> Head(rows)[1], size |-> Head(rows)[2]])
         IN  replay(r.bids, r.asks, Tail(rows), side)

\* reset_book without lines 50-51: the rows are added to the old indexes
reset_book_keeping(self0, res) ==
    LET self == [self0 EXCEPT !.resyncs = @ + 1, !.fetched = res]
    IN  IF ~res.ok
        THEN [self EXCEPT !.ret = Raise("FetchError")]
        ELSE LET afterBids == replay(self.bids, self.asks, res.bids, "buy")
                 afterAsks == replay(afterBids.bids, afterBids.asks, res.asks, "sell")
             IN  [self EXCEPT !.bids = afterAsks.bids, !.asks = afterAsks.asks,
                              !.sequence = res.sequence, !.ret = None]

reset_book(self0, res) ==
    LET self == [self0 EXCEPT !.resyncs = @ + 1, !.fetched = res]
    IN  IF ~res.ok
        THEN [self EXCEPT !.bids = EmptyDict, !.asks = EmptyDict,
                          !.ret = Raise("FetchError")]
        ELSE LET afterBids == replay(EmptyDict, EmptyDict, res.bids, "buy")
                 afterAsks == replay(afterBids.bids, afterBids.asks, res.asks, "sell")
             IN  [self EXCEPT !.bids = afterAsks.bids, !.asks = afterAsks.asks,
                              !.sequence = res.sequence, !.ret = None]

\* OrderBook.on_sequence_gap
on_sequence_gap(self, res) == reset_book(self, res)

(***************************************************************************)
(* OrderBook.on_message.  self is the object before the call and res the   *)
(* answer of the snapshot service should the call ask for one; the result  *)
(* is the object after the call, with what the call returned or raised     *)
(* (ret), the primitive it ran and the number of resyncs it made.          *)
(***************************************************************************)
Ran(name, r) == [primitive |-> name, bids |-> r.bids, asks |-> r.asks, ret |-> r.ret]

\* lines 84-99: the dispatch on the message type
dispatch(b, a, message) ==
    LET msg_type == message["type"]
    IN  IF msg_type = "open" THEN Ran("add", add(b, a, message))
        ELSE IF msg_type = "done" /\ "price" \in DOMAIN message
        THEN Ran("remove", remove(b, a, message))
        ELSE IF msg_type = "done" /\ Get(message, "reason", "None") = "filled"
        THEN Ran("remove", remove(b, a, message))
        ELSE IF msg_type = "match" THEN Ran("match", match(b, a, message))
        ELSE IF msg_type = "change" THEN Ran("change", change(b, a, message))
        ELSE IF msg_type = "received" THEN Ran("none", Result(b, a, None))
        ELSE Ran("none", Result(b, a, Str("Untreated message type")))

\* a call starts with nothing returned, no primitive run and no resync made
Enter(self) ==
    [self EXCEPT !.ret = None, !.primitive = "none", !.resyncs = 0,
                 !.fetched = NoFetch]

\* lines 76 and 82: the string returned once the resync has come back; a
\* failed fetch has propagated instead
returning(after, text) ==
    IF after.ret.kind = "raise" THEN [after EXCEPT !.failed = TRUE]
    ELSE [after EXCEPT !.ret = Str(text), !.fatal = FALSE, !.failed = FALSE]

\* line 77 with < for <=
stale_strict(self, seq) == seq < self.sequence

\* line 77: the message is not newer than the book
stale(self, seq) == seq <= self.sequence

\* on_message without lines 80-82: every newer message is dispatched
gap_unchecked(self, seq) == FALSE

\* line 80 with + 2 for + 1
gap_late(self, seq) == seq > self.sequence + 2

\* line 80: at least one message was missed
gap(self, seq) == seq > self.sequence + 1

\* lines 101-102 skipped when the primitive returned None
record_changes(self, message, seq) ==
    IF self.ret = None THEN self
    ELSE [self EXCEPT !.current_ticker = Get(message, "product_id", NoTicker),
                      !.sequence = seq]

\* lines 101-102, reached when the primitive returned
record(self, message, seq) ==
    [self EXCEPT !.current_ticker = Get(message, "product_id", NoTicker),
                 !.sequence = seq]

on_message(self0, message, res) ==
    LET self == Enter(self0)
        seq == Get(message, "sequence", -1)
    IN  IF self.sequence = -1
        THEN returning(reset_book(self, res), "Reset book due to negative sequence")
        ELSE IF stale(self, seq)
        THEN [self EXCEPT !.ret = Str("Current book sequence beyond this order")]
        ELSE IF gap(self, seq)
        THEN returning(on_sequence_gap(self, res), "Sequence gap to this order")
        ELSE LET r == dispatch(self.bids, self.asks, message)
                 after == [self EXCEPT !.bids = r.bids, !.asks = r.asks,
                                       !.ret = r.ret, !.primitive = r.primitive]
             IN  IF r.ret.kind = "raise"
                 THEN [after EXCEPT !.fatal = @ \/ r.ret.text = "AssertionError"]
                 ELSE record(after, message, seq)

\* the call asks the snapshot service: lines 74-75 and 80-81
Fetching(self, message) ==
    \/ self.sequence = -1
    \/ /\ ~stale(self, Get(message, "sequence", -1))
       /\ gap(self, Get(message, "sequence", -1))

\* on_open without line 43: the sequence is left as it is
on_open_keeping(self) ==
    [self EXCEPT !.ret = NoCall, !.primitive = "none", !.resyncs = 0,
                 !.fetched = NoFetch]

\* OrderBook.on_open
on_open(self) ==
    [self EXCEPT !.sequence = -1, !.ret = NoCall, !.primitive = "none",
                 !.resyncs = 0, !.fetched = NoFetch]

(***************************************************************************)
(* The feed: the messages on_message is called with.                       *)
(***************************************************************************)
NoKeys == [k \in {} |-> k]
Opt(key, values) == {NoKeys} \cup {key :> v : v \in values}

OpenBodies ==
    {[type |-> "open", product_id |-> Product, side |-> s, order_id |-> i]
        @@ p @@ z @@ rz :
        s \in Sides, i \in Ids, p \in Opt("price", Tokens),
        z \in Opt("size", SizeTokens), rz \in Opt("remaining_size", {"1"})}

DoneBodies ==
    {[type |-> "done", product_id |-> Product, side |-> s, order_id |-> i,
      reason |-> r] @@ p @@ z :
        s \in Sides, i \in Ids, r \in {"filled", "canceled"},
        p \in Opt("price", Tokens), z \in Opt("size", SizeTokens)}

MatchBodies ==
    {[type |-> "match", product_id |-> Product, side |-> s, maker_order_id |-> i]
        @@ p @@ z :
        s \in Sides, i \in Ids, p \in Opt("price", Tokens),
        z \in Opt("size", SizeTokens)}

ChangeBodies ==
    {[type |-> "change", product_id |-> Product, side |-> s, order_id |-> i]
        @@ p @@ z :
        s \in Sides, i \in Ids, p \in Opt("price", Tokens),
        z \in Opt("new_size", SizeTokens)}

OtherBodies ==
    {[type |-> t, product_id |-> Product] : t \in {"received", "activate"}}

Bodies == OpenBodies \cup DoneBodies \cup MatchBodies \cup ChangeBodies \cup OtherBodies

\* the message carries the fields its type requires
WellFormed(m) ==
    /\ m["type"] = "open" =>
           "price" \in DOMAIN m /\ ("size" \in DOMAIN m \/ "remaining_size" \in DOMAIN m)
    /\ m["type"] = "match" => {"price", "size"} \subseteq DOMAIN m
    /\ m["type"] = "change" => {"price", "new_size"} \subseteq DOMAIN m

\* one message of each type, for the calls that do not look into the message
Plain ==
    {m \in Bodies :
        /\ "side" \in DOMAIN m => m["side"] = "buy"
        /\ "order_id" \in DOMAIN m => m["order_id"] = "a"
        /\ "maker_order_id" \in DOMAIN m => m["maker_order_id"] = "a"
        /\ "reason" \in DOMAIN m => m["reason"] = "filled"
        /\ "price" \in DOMAIN m => m["price"] = "1"
        /\ "size" \in DOMAIN m => m["size"] = "1"
        /\ "new_size" \in DOMAIN m => m["new_size"] = "1"
        /\ "remaining_size" \notin DOMAIN m
        /\ m["type"] \in {"open", "done", "match"} =>
               {"price", "size"} \subseteq DOMAIN m
        /\ m["type"] = "change" => {"price", "new_size"} \subseteq DOMAIN m}

At(m, n) == m @@ ("sequence" :> n)

\* the in-order messages when the book is at sequence s
InOrder(s) == {At(m, s + 1) : m \in Bodies}

\* the stale messages: an old sequence number, or none at all
Stale(s) == {At(m, s) : m \in Plain} \cup Plain

\* the messages that skip at least one sequence number
Gap(s) == {At(m, s + 2) : m \in {p \in Plain : p["type"] \in {"match", "received"}}}

\* the ids of the orders resting in an object
RestingIds(self) ==
    LET ids(d) == UNION {{d[p][i].id : i \in DOMAIN d[p]} : p \in DOMAIN d}
    IN  ids(self.bids) \cup ids(self.asks)

\* an order id is unique while the order rests: the exchange opens no
\* order under an id that is resting
Fresh(self, m) == m["type"] = "open" => m["order_id"] \notin RestingIds(self)

\* the messages offered to an object: before the first snapshot any
\* message, then the next one, old ones and ones further on
Feed(self) ==
    LET s == self.sequence
    IN  IF s = -1 THEN {At(m, 0) : m \in Plain}
        ELSE (IF s < MaxSeq THEN {m \in InOrder(s) : Fresh(self, m)} ELSE {})
                 \cup Stale(s) \cup Gap(s)

(***************************************************************************)
(* OrderBook.get_bid and OrderBook.get_ask: peekitem(-1) is the item of    *)
(* the greatest key and peekitem(0) the item of the least; on an empty     *)
(* SortedDict peekitem raises.                                             *)
(***************************************************************************)
Price(p) == [kind |-> "price", price |-> <<p>>, size |-> 0, text |-> ""]

Greatest(S) == CHOOSE p \in S : \A q \in S : q <= p
Least(S) == CHOOSE p \in S : \A q \in S : p <= q

get_bid(self) ==
    IF DOMAIN self.bids = {} THEN Raise("IndexError")
    ELSE Price(Greatest(DOMAIN self.bids))

get_ask(self) ==
    IF DOMAIN self.asks = {} THEN Raise("IndexError")
    ELSE Price(Least(DOMAIN self.asks))

(***************************************************************************)
(* OrderBook.get_current_book, called by a thread other than the one that  *)
(* calls on_message.  `for price in self._asks' walks the SortedDict's     *)
(* sorted list of keys by position: a key deleted or inserted at or before *)
(* the position shifts the keys that follow.  The iterator holds the       *)
(* SortedDict it was made from, so once reset_book has put a new           *)
(* SortedDict in its place it walks the keys of the old one, while the     *)
(* lookup self._asks[price] reads the new one.                             *)
(***************************************************************************)
\* the keys of a SortedDict, ascending
SortedKeys(d) ==
    CHOOSE s \in [1..Cardinality(DOMAIN d) -> DOMAIN d] :
        \A i, j \in 1..Cardinality(DOMAIN d) : i < j => s[i] < s[j]

\* iter(d): nothing walked yet
Iter(d) == [keys |-> SortedKeys(d), pos |-> 0, key |-> 0, live |-> TRUE]
NoIter == [keys |-> <<>>, pos |-> 0, key |-> 0, live |-> FALSE]

\* lines 253-257
NoResult == [sequence |-> -1, asks |-> <<>>, bids |-> <<>>]

\* lines 265-267 and 276-278: the rows [price, size, id] of a level
RECURSIVE Rows(_)
Rows(orders) ==
    IF orders = <<>> THEN <<>>
    ELSE <<<<Head(orders).price, Head(orders).size, Head(orders).id>>>>
             \o Rows(Tail(orders))

\* a version of the book, and where the reading thread stood when the
\* book became that
Version(self) ==
    [sequence |-> self.sequence, bids |-> self.bids, asks |-> self.asks,
     pc |-> pc, key |-> it.key]

\* the iterator after a call has changed the object to n: it walks the
\* keys of the SortedDict it holds
Walking(n) ==
    IF pc \in {"asks", "ask", "bids", "bid"} /\ it.live
    THEN IF n.resyncs > 0 THEN [it EXCEPT !.live = FALSE]
         ELSE [it EXCEPT !.keys =
                   SortedKeys(IF pc \in {"asks", "ask"} THEN n.asks ELSE n.bids)]
    ELSE it

(***************************************************************************)
(* The state machine.                                                      *)
(***************************************************************************)
\* the object and what was observed of the last call, as one record
Self ==
    [bids |-> bids, asks |-> asks, sequence |-> sequence,
     current_ticker |-> current_ticker, ret |-> ret, primitive |-> primitive,
     resyncs |-> resyncs, fetched |-> fetched, fatal |-> fatal,
     failed |-> failed]

Becomes(n) ==
    /\ bids' = n.bids
    /\ asks' = n.asks
    /\ sequence' = n.sequence
    /\ current_ticker' = n.current_ticker
    /\ ret' = n.ret
    /\ primitive' = n.primitive
    /\ resyncs' = n.resyncs
    /\ fetched' = n.fetched
    /\ fatal' = n.fatal
    /\ failed' = n.failed
    /\ writes' = IF pc = "idle" THEN writes ELSE writes + 1
    /\ seen' = IF pc = "idle" THEN seen ELSE Append(seen, Version(n))
    /\ it' = Walking(n)
    /\ UNCHANGED <<pc, result>>

\* OrderBook.__init__
Init ==
    /\ bids = EmptyDict
    /\ asks = EmptyDict
    /\ sequence = -1
    /\ current_ticker = NoTicker
    /\ ret = NoCall
    /\ primitive = "none"
    /\ resyncs = 0
    /\ fetched = NoFetch
    /\ fatal = FALSE
    /\ failed = FALSE
    /\ pc = "idle"
    /\ it = NoIter
    /\ result = NoResult
    /\ seen = <<>>
    /\ writes = 0

\* the thread that calls on_message and on_open gets to run
Scheduled == IF pc = "idle" THEN TRUE ELSE writes < MaxWrites

\* a call of on_message that applies the message or ignores it
Apply ==
    /\ Scheduled
    /\ \E message \in Feed(Self) :
           /\ ~Fetching(Self, message)
           /\ Becomes(on_message(Self, message, NoFetch))

\* a call of on_message that resynchronises the book
Resync ==
    /\ Scheduled
    /\ \E message \in Feed(Self) :
           /\ Fetching(Self, message)
           /\ \E res \in Fetches : Becomes(on_message(Self, message, res))

\* the websocket (re)connects
Open == Scheduled /\ Becomes(on_open(Self))

Next == Apply \/ Resync \/ Open

Spec == Init /\ [][Next]_vars

\* the object is left alone by the steps of get_current_book
Reads ==
    UNCHANGED <<bids, asks, sequence, current_ticker, ret, primitive, resyncs,
                fetched, fatal, failed, writes>>

\* lines 253-258: result is set up with the sequence, the loop over the
\* asks begins
Begin ==
    /\ pc = "idle"
    /\ pc' = "asks"
    /\ result' = [sequence |-> sequence, asks |-> <<>>, bids |-> <<>>]
    /\ it' = Iter(asks)
    /\ seen' = <<Version(Self)>>
    /\ UNCHANGED <<bids, asks, sequence, current_ticker, ret, primitive, resyncs,
                   fetched, fatal, failed, writes>>

\* line 258: the next ask price, or the asks are done and the loop over
\* the bids begins (line 268)
NextAsk ==
    /\ pc = "asks"
    /\ IF it.pos < Len(it.keys)
       THEN /\ it' = [it EXCEPT !.pos = @ + 1, !.key = it.keys[it.pos + 1]]
            /\ pc' = "ask"
       ELSE /\ it' = Iter(bids)
            /\ pc' = "bids"
    /\ UNCHANGED <<result, seen>>
    /\ Reads

\* lines 259-267: the level is looked up; a KeyError skips it
ReadAsk ==
    /\ pc = "ask"
    /\ result' = IF Has(asks, it.key)
                 THEN [result EXCEPT !.asks = @ \o Rows(asks[it.key])]
                 ELSE result
    /\ pc' = "asks"
    /\ UNCHANGED <<it, seen>>
    /\ Reads

\* line 268: the next bid price, or the bids are done (line 279)
NextBid ==
    /\ pc = "bids"
    /\ IF it.pos < Len(it.keys)
       THEN /\ it' = [it EXCEPT !.pos = @ + 1, !.key = it.keys[it.pos + 1]]
            /\ pc' = "bid"
       ELSE /\ it' = NoIter
            /\ pc' = "done"
    /\ UNCHANGED <<result, seen>>
    /\ Reads

\* lines 269-278
ReadBid ==
    /\ pc = "bid"
    /\ result' = IF Has(bids, it.key)
                 THEN [result EXCEPT !.bids = @ \o Rows(bids[it.key])]
                 ELSE result
    /\ pc' = "bids"
    /\ UNCHANGED <<it, seen>>
    /\ Reads

\* line 279: the caller has the result, the thread is free to call again
Return ==
    /\ pc = "done"
    /\ pc' = "idle"
    /\ result' = NoResult
    /\ seen' = <<>>
    /\ writes' = 0
    /\ UNCHANGED <<bids, asks, sequence, current_ticker, ret, primitive, resyncs,
                   fetched, fatal, failed, it>>

get_current_book == Begin \/ NextAsk \/ ReadAsk \/ NextBid \/ ReadBid \/ Return

\* the object with a second thread that reads it
NextRead == Apply \/ Resync \/ Open \/ get_current_book

SpecRead == Init /\ [][NextRead]_vars

(***************************************************************************)
(* The claims.  A claim about one call of on_message is stated at every    *)
(* reachable state, of every message of the kind the claim names: n is     *)
(* the object after the call.                                              *)
(***************************************************************************)
\* the messages the claims range over: every body, at the sequence numbers
\* that are stale, next, or beyond a gap
Stales(s) == Bodies \cup {At(m, k) : m \in Bodies, k \in {0, s}}
Gaps(s) == {At(m, s + k) : m \in Plain, k \in {2, 3}}
Anys == Plain \cup {At(m, k) : m \in Plain, k \in 0..(MaxSeq + 2)}

\* the side's index of an object
Side(self, side) == IF side = "buy" THEN self.bids ELSE self.asks
Other(side) == IF side = "buy" THEN "sell" ELSE "buy"

\* the book a snapshot describes: per price the rows of that price, in the
\* order of the snapshot
RowOrder(row, side) ==
    [id |-> row[3], side |-> side, price |-> Decimal(row[1]), size |-> Decimal(row[2])]

SnapshotSide(rows, side) ==
    [p \in {Decimal(rows[i][1]) : i \in DOMAIN rows} |->
        SelectSeq([i \in DOMAIN rows |-> RowOrder(rows[i], side)],
                  LAMBDA o : o.price = p)]

\* a primitive ran in the last call and returned
Applied == primitive # "none" /\ ret.kind # "raise"

\* C1: in every reachable state a price is a key of the bid or ask index
\* if and only if its queue of orders is not empty: no key maps to an empty
\* queue.
C1_NoEmptyLevel ==
    \A d \in {bids, asks} : \A p \in DOMAIN d : d[p] # <<>>

\* C2: gap healing.  With the book synced at sequence S, a message whose
\* sequence exceeds S+1 makes exactly one resync, runs no primitive, leaves
\* the book as the snapshot alone gives it, and the sequence becomes the
\* snapshot's, not the message's.
C2_GapHealing ==
    sequence # -1 =>
        \A m \in Gaps(sequence) : \A res \in Responses :
            LET n == on_message(Self, m, res)
            IN  /\ n.resyncs = 1
                /\ n.primitive = "none"
                /\ n.fetched = res
                /\ n.sequence = res.sequence
                /\ n.sequence # m["sequence"]
                /\ n.bids = SnapshotSide(res.bids, "buy")
                /\ n.asks = SnapshotSide(res.asks, "sell")

\* C2 witness: a call has just healed a gap from a snapshot with orders.
C2_Witness ==
    /\ ret = Str("Sequence gap to this order")
    /\ resyncs = 1
    /\ fetched.ok
    /\ sequence = fetched.sequence
    /\ Len(fetched.bids) > 0
    /\ bids = SnapshotSide(fetched.bids, "buy")

\* C3: stale replay is a no-op.  With the book synced, a message whose
\* sequence is at most the book's, or that has no sequence, leaves the bid
\* index, the ask index, the sequence and the ticker unchanged, makes no
\* resync and returns 'Current book sequence beyond this order', whatever
\* its type.
C3_StaleNoOp ==
    sequence # -1 =>
        \A m \in Stales(sequence) : \A res \in {FetchError} :
            LET n == on_message(Self, m, res)
            IN  /\ n.bids = bids
                /\ n.asks = asks
                /\ n.sequence = sequence
                /\ n.current_ticker = current_ticker
                /\ n.resyncs = 0
                /\ n.fetched = NoFetch
                /\ n.primitive = "none"
                /\ n.ret = Str("Current book sequence beyond this order")

\* C3 witness: a stale message has just been ignored by a book that holds
\* orders and has never recorded a ticker.
C3_Witness ==
    /\ ret = Str("Current book sequence beyond this order")
    /\ sequence >= 0
    /\ resyncs = 0
    /\ current_ticker = NoTicker
    /\ bids # EmptyDict

C5_InitialResync ==
    sequence = -1 =>
        \A m \in Anys : \A res \in Responses :
            LET n == on_message(Self, m, res)
            IN  /\ n.bids = SnapshotSide(res.bids, "buy")
                /\ n.asks = SnapshotSide(res.asks, "sell")
                /\ n.sequence = res.sequence
                /\ n.resyncs = 1
                /\ n.primitive = "none"
                /\ n.ret = Str("Reset book due to negative sequence")

\* C5 witness: the initial resync has just loaded a snapshot with two bids
\* at the same price.
C5_Witness ==
    /\ ret = Str("Reset book due to negative sequence")
    /\ fetched.ok
    /\ Len(fetched.bids) = 2
    /\ DOMAIN bids = {1}
    /\ Len(bids[1]) = 2
    /\ bids[1][1].id = fetched.bids[1][3]
    /\ sequence = fetched.sequence

\* the in-order messages of one type that carry the fields of that type
Events(s, type) == {m \in InOrder(s) : m["type"] = type /\ WellFormed(m)}

\* the queue of a price on a side of an object, << >> when there is none
Level(self, side, price) ==
    IF Has(Side(self, side), price) THEN Side(self, side)[price] ELSE <<>>

\* every level but the one of a price on a side is the same in two objects
SameElsewhere(self, n, side, price) ==
    /\ Side(n, Other(side)) = Side(self, Other(side))
    /\ DOMAIN Side(n, side) \ {price} = DOMAIN Side(self, side) \ {price}
    /\ \A p \in DOMAIN Side(self, side) \ {price} :
           Side(n, side)[p] = Side(self, side)[p]

\* C6: match exactness.  An in-order match whose maker is the head order of
\* the level at the traded price and whose size is that order's size removes
\* the head and nothing else: the rest of the queue keeps its sizes and
\* order, every other level of both sides is unchanged, and the outcome is
\* (price, -size).
C6_MatchExactness ==
    sequence # -1 =>
        \A m \in Events(sequence, "match") :
            LET price == Decimal(m["price"])
                size == Decimal(m["size"])
                queue == Level(Self, m["side"], price)
                n == on_message(Self, m, NoFetch)
            IN  (/\ queue # <<>>
                 /\ queue[1].id = m["maker_order_id"]
                 /\ queue[1].size = size)
                =>  /\ Level(n, m["side"], price) = Tail(queue)
                    /\ SameElsewhere(Self, n, m["side"], price)
                    /\ n.ret = Tuple(price, -size)
                    /\ n.primitive = "match"

\* C6 witness: a match of size 2 at price 1 has just removed the head of
\* the bids there, and the order that was second, b of size 1, is the head.
C6_Witness ==
    /\ primitive = "match"
    /\ ret = Tuple(1, -2)
    /\ Has(bids, 1)
    /\ Len(bids[1]) = 1
    /\ bids[1][1].id = "b"
    /\ bids[1][1].size = 1
    /\ asks # EmptyDict

\* C7: a match consistency violation is fatal.  An in-order match whose
\* maker is not the head of the non-empty level at the traded price raises,
\* leaves both sides and the sequence unchanged, and from then on no
\* message is applied through a primitive before a resync has completed.
C7_FatalMatch ==
    /\ [](sequence # -1 =>
            \A m \in Events(sequence, "match") :
                LET queue == Level(Self, m["side"], Decimal(m["price"]))
                    n == on_message(Self, m, NoFetch)
                IN  (queue # <<>> /\ queue[1].id # m["maker_order_id"])
                    =>  /\ n.ret = Raise("AssertionError")
                        /\ n.bids = bids
                        /\ n.asks = asks
                        /\ n.sequence = sequence)
    /\ [][fatal => ~Applied']_vars

\* C8: change preserves position.  An in-order change of an order resting
\* at the given price on the given side overwrites that order's size and
\* nothing else: the ids of the queue and their order are unchanged, every
\* other order and level is unchanged, and the outcome is
\* (price, new_size - old_size).
C8_ChangeKeepsPosition ==
    sequence # -1 =>
        \A m \in Events(sequence, "change") :
            LET price == Decimal(m["price"])
                new_size == Decimal(m["new_size"])
                queue == Level(Self, m["side"], price)
                n == on_message(Self, m, NoFetch)
            IN  (\E i \in DOMAIN queue : queue[i].id = m["order_id"])
                =>  /\ \E i \in DOMAIN queue :
                           /\ queue[i].id = m["order_id"]
                           /\ Level(n, m["side"], price) =
                                  [queue EXCEPT ![i].size = new_size]
                           /\ n.ret = Tuple(price, new_size - queue[i].size)
                    /\ SameElsewhere(Self, n, m["side"], price)
                    /\ n.primitive = "change"

\* C8 witness: a change has just raised by 1 the size of an order in a
\* queue of two bids, and the queue is still a then b.
C8_Witness ==
    /\ primitive = "change"
    /\ ret = Tuple(1, 1)
    /\ Has(bids, 1)
    /\ Len(bids[1]) = 2
    /\ bids[1][1].id = "a"
    /\ bids[1][2].id = "b"
    /\ bids[1][2].size = 2

\* C9: add/remove round trip.  From any reachable state, an open for an id
\* that rests nowhere, then a done with the same id, side and price, leave
\* the level of that price as it was before the open (absent if it was
\* absent) and every other level unchanged.
C9_AddRemoveRoundTrip ==
    sequence # -1 =>
        \A m \in Events(sequence, "open") :
            \A d \in {e \in Events(sequence + 1, "done") : "price" \in DOMAIN e} :
                (/\ m["order_id"] \notin RestingIds(Self)
                 /\ d["order_id"] = m["order_id"]
                 /\ d["side"] = m["side"]
                 /\ Decimal(d["price"]) = Decimal(m["price"]))
                =>  LET n == on_message(on_message(Self, m, NoFetch), d, NoFetch)
                    IN  /\ n.bids = bids
                        /\ n.asks = asks
                        /\ n.sequence = sequence + 2

\* C10: not-found never raises.  An in-order done, change or match for a
\* price with no level on its side, or a done or change for an id that is
\* not at that price, does not raise, leaves both sides unchanged, advances
\* the sequence, and returns a zero size delta (done) or a diagnostic
\* string (change, match).
NotFound(self, m) ==
    LET price == Decimal(m["price"])
    IN  \/ ~Has(Side(self, m["side"]), price)
        \/ /\ m["type"] \in {"done", "change"}
           /\ \A i \in DOMAIN Level(self, m["side"], price) :
                  Level(self, m["side"], price)[i].id # m["order_id"]

C10_NotFoundNeverRaises ==
    sequence # -1 =>
        \A m \in {e \in InOrder(sequence) :
                      /\ e["type"] \in {"done", "change", "match"}
                      /\ WellFormed(e)
                      /\ "price" \in DOMAIN e} :
            LET n == on_message(Self, m, NoFetch)
            IN  NotFound(Self, m)
                =>  /\ n.ret.kind # "raise"
                    /\ n.bids = bids
                    /\ n.asks = asks
                    /\ n.sequence = m["sequence"]
                    /\ m["type"] = "done" =>
                           n.ret = Tuple(Decimal(m["price"]), 0)
                    /\ m["type"] \in {"change", "match"} => n.ret.kind = "str"

\* the in-order messages that lack a field their type requires
Malformed(s) ==
    {m \in InOrder(s) : m["type"] \in {"open", "match", "change"} /\ ~WellFormed(m)}

\* C11: malformed events are skipped, not fatal.  An in-order open, match
\* or change that lacks a field its type requires returns a descriptive
\* string, leaves both sides unchanged, and advances the sequence to its
\* own, so that the next consecutive message is in order.
C11_MalformedSkipped ==
    sequence # -1 =>
        \A m \in Malformed(sequence) :
            LET n == on_message(Self, m, NoFetch)
            IN  /\ n.ret.kind = "str"
                /\ n.bids = bids
                /\ n.asks = asks
                /\ n.resyncs = 0
                /\ n.sequence = m["sequence"]

\* C12: a resync failure is fatal and safe.  When the snapshot fetch of a
\* resync fails, at start or after a gap, the failure propagates out of
\* on_message, and from then on no message is applied through a primitive
\* before a resync has completed: no diff is applied to a book that was
\* emptied and not filled again.
C12_ResyncFailureFatal ==
    /\ [](\A m \in {e \in Anys \cup Gaps(sequence) : Fetching(Self, e)} :
              on_message(Self, m, FetchError).ret = Raise("FetchError"))
    /\ [][failed => ~Applied']_vars

\* the rows of every level of a SortedDict, by ascending price
RECURSIVE Dump(_, _)
Dump(d, keys) ==
    IF keys = <<>> THEN <<>> ELSE Rows(d[Head(keys)]) \o Dump(d, Tail(keys))

\* a sequence holds every row of a level
Holds(rows, orders) ==
    \A i \in DOMAIN orders : \E j \in DOMAIN rows : rows[j] = Rows(orders)[i]

\* one call ran during the read, between the enumeration of a price of a
\* side and the lookup of that price, and deleted the level of that price
\* and nothing else
DeletedUnderRead(side, at) ==
    /\ Len(seen) = 2
    /\ seen[2].pc = at
    /\ Has(seen[1][side], seen[2].key)
    /\ seen[2][side] = del(seen[1][side], seen[2].key)
    /\ \A other \in {"bids", "asks"} \ {side} : seen[2][other] = seen[1][other]

\* C13: get_current_book tolerates concurrent level deletion.  When a call
\* of on_message deletes a level between the reader's enumeration of its
\* price and the lookup of that price, get_current_book returns: without
\* the rows of the deleted level and with every order of each level that
\* was there throughout the read.
C13_ReadToleratesDeletion ==
    \A c \in {<<"asks", "ask">>, <<"bids", "bid">>} :
        (pc = "done" /\ DeletedUnderRead(c[1], c[2]))
        =>  \A side \in {"bids", "asks"} : \A p \in DOMAIN seen[2][side] :
                Holds(result[side], seen[2][side][p])

\* C14: consistent reads.  What a call of get_current_book that runs while
\* on_message is called returns is one version of the book: its sequence,
\* bids and asks are those the book had together at some moment of the
\* read.
C14_ConsistentRead ==
    pc = "done" =>
        \E i \in DOMAIN seen :
            /\ result.sequence = seen[i].sequence
            /\ result.asks = Dump(seen[i].asks, SortedKeys(seen[i].asks))
            /\ result.bids = Dump(seen[i].bids, SortedKeys(seen[i].bids))

\* the prices of a side at which at least one order rests
RestingPrices(d) == {p \in DOMAIN d : d[p] # <<>>}

\* C15: best prices.  In every reachable state get_bid returns the highest
\* price at which a buy order rests and get_ask the lowest price at which
\* a sell order rests, and each raises exactly when no order rests on its
\* side; so the queue at a returned price is not empty.
C15_BestPrices ==
    /\ IF RestingPrices(bids) = {} THEN get_bid(Self).kind = "raise"
       ELSE get_bid(Self) = Price(Greatest(RestingPrices(bids)))
    /\ IF RestingPrices(asks) = {} THEN get_ask(Self).kind = "raise"
       ELSE get_ask(Self) = Price(Least(RestingPrices(asks)))

\* C16: add keeps time priority.  An in-order open appends the new order
\* at the tail of the queue of its price on its side, a queue of that one
\* order when there was none; the orders that rested keep their sizes and
\* order, every other level and the opposite side are unchanged, and the
\* outcome is (price, size).
C16_AddAtTail ==
    [](sequence # -1 =>
           \A m \in Events(sequence, "open") :
               LET price == Decimal(m["price"])
                   size == Decimal(IF "size" \in DOMAIN m THEN m["size"]
                                   ELSE m["remaining_size"])
                   queue == Level(Self, m["side"], price)
                   n == on_message(Self, m, NoFetch)
               IN  /\ Level(n, m["side"], price) =
                          Append(queue, [id |-> m["order_id"], side |-> m["side"],
                                         price |-> price, size |-> size])
                   /\ Has(Side(n, m["side"]), price)
                   /\ SameElsewhere(Self, n, m["side"], price)
                   /\ n.ret = Tuple(price, size)
                   /\ n.primitive = "add"
                   /\ n.sequence = m["sequence"])

\* C16 witness: an open has just put order b of size 2 behind order a in
\* the bids at price 1.
C16_Witness ==
    /\ primitive = "add"
    /\ ret = Tuple(1, 2)
    /\ Has(bids, 1)
    /\ Len(bids[1]) = 2
    /\ bids[1][1].id = "a"
    /\ bids[1][2].id = "b"
    /\ bids[1][2].size = 2
    /\ sequence > 0

\* C17: no event is applied against a stale baseline.  In every reachable
\* state and for every message, one of add, remove, match and change runs
\* only if the book is synced and the message's sequence is the book's
\* plus one; the call then makes no resync and, when the primitive
\* returns, leaves the sequence one higher, so that the applied messages
\* between two resyncs are numbered consecutively from the snapshot's
\* sequence plus one and none is applied twice or out of order; a
\* primitive that raises has changed neither side.
\* the answers of the snapshot service the claims below range over: a
\* failure, and the snapshots at sequence 0 that list bids alone
BidFetches == {FetchError} \cup {r \in Responses : r.asks = <<>> /\ r.sequence = 0}
TwoBids ==
    [ok |-> TRUE, sequence |-> 0, asks |-> <<>>,
     bids |-> <<<<"1", "2", "a">>, <<"1.0", "1", "b">>>>]

C17_NoStaleBaseline ==
    [](\A m \in (IF sequence = -1 THEN {} ELSE InOrder(sequence)) \cup Anys :
           \A res \in (IF Fetching(Self, m) THEN {FetchError, TwoBids} ELSE {NoFetch}) :
               LET n == on_message(Self, m, res)
               IN  n.primitive # "none"
                   =>  /\ sequence # -1
                       /\ Get(m, "sequence", -1) = sequence + 1
                       /\ n.resyncs = 0
                       /\ IF n.ret.kind = "raise"
                          THEN n.sequence = sequence /\ n.bids = bids /\ n.asks = asks
                          ELSE n.sequence = sequence + 1)

\* C17 witness: a match has just been applied in order and the sequence
\* is past that of every snapshot.
C17_Witness ==
    /\ Applied
    /\ primitive = "match"
    /\ ret.kind = "tuple"
    /\ resyncs = 0
    /\ sequence > Greatest(SnapSeqs)

\* C18: order sizes never go negative.  In every reachable state every
\* order resting in the bid index or the ask index has a size of at least
\* zero.
C18_SizesNotNegative ==
    \A d \in {bids, asks} : \A p \in DOMAIN d : \A i \in DOMAIN d[p] :
        d[p][i].size >= 0

\* C19: forced resync on (re)connect.  on_open in any state leaves the
\* sequence at -1, and the next call of on_message, whatever the sequence
\* number of its message, runs no primitive and resyncs: the book becomes
\* the snapshot at the snapshot's sequence, or the fetch fails, the
\* failure propagates, the sequence stays at -1 and the call after that
\* resyncs again without running a primitive.
C19_ForcedResync ==
    [](LET o == on_open(Self)
       IN  /\ o.sequence = -1
           /\ \A m \in Anys : \A res \in BidFetches :
                  LET n == on_message(o, m, res)
                  IN  /\ n.resyncs = 1
                      /\ n.fetched = res
                      /\ n.primitive = "none"
                      /\ IF res.ok
                         THEN /\ n.ret = Str("Reset book due to negative sequence")
                              /\ n.sequence = res.sequence
                              /\ n.bids = SnapshotSide(res.bids, "buy")
                              /\ n.asks = SnapshotSide(res.asks, "sell")
                         ELSE /\ n.ret = Raise("FetchError")
                              /\ n.sequence = -1
                              /\ \A m2 \in {At(p, sequence + 1) : p \in Plain} :
                                     LET n2 == on_message(n, m2, res)
                                     IN  n2.primitive = "none" /\ n2.resyncs = 1)

\* C19 witness: a book that had applied messages in order has been rebuilt
\* by the resync for a negative sequence: on_open had been called on it.
C19_Witness ==
    /\ ret = Str("Reset book due to negative sequence")
    /\ current_ticker = Product
    /\ fetched.ok
    /\ sequence = fetched.sequence
    /\ bids = SnapshotSide(fetched.bids, "buy")
    /\ bids # EmptyDict

\* the total size resting at a price on a side of an object
RECURSIVE Sum(_)
Sum(orders) == IF orders = <<>> THEN 0 ELSE Head(orders).size + Sum(Tail(orders))

Total(self, side, price) == Sum(Level(self, side, price))

\* the in-order open, done, match and change messages
Structural(s) ==
    {m \in InOrder(s) : m["type"] \in {"open", "done", "match", "change"}}

\* a done message states a size that is not the size of the order it names
Misstated(self, m) ==
    /\ m["type"] = "done"
    /\ "size" \in DOMAIN m
    /\ "price" \in DOMAIN m
    /\ \E i \in DOMAIN Level(self, m["side"], Decimal(m["price"])) :
           LET o == Level(self, m["side"], Decimal(m["price"]))[i]
           IN  o.id = m["order_id"] /\ o.size # Decimal(m["size"])

\* C20 as claimed: whenever on_message returns (price, size_delta) for an
\* in-order open, done, match or change, the total size resting at that
\* price on the message's side has changed by size_delta and the orders of
\* no other level have changed.
C20_FaithfulDeltas ==
    sequence # -1 =>
        \A m \in Structural(sequence) :
            LET n == on_message(Self, m, NoFetch)
            IN  (n.ret.kind = "tuple" /\ n.ret.price # <<>>)
                =>  /\ Total(n, m["side"], n.ret.price[1])
                           = Total(Self, m["side"], n.ret.price[1]) + n.ret.size
                    /\ SameElsewhere(Self, n, m["side"], n.ret.price[1])

\* C20 amended: the same, but for a done that states a size other than
\* the resting size of the order it removes; the outcome of such a done is
\* minus the stated size, while the total drops by the order's size.
C20_FaithfulDeltasButMisstated ==
    [](sequence # -1 =>
           \A m \in Structural(sequence) :
               LET n == on_message(Self, m, NoFetch)
               IN  (n.ret.kind = "tuple" /\ n.ret.price # <<>>)
                   =>  /\ SameElsewhere(Self, n, m["side"], n.ret.price[1])
                       /\ n.ret.price[1] = Decimal(m["price"])
                       /\ IF Misstated(Self, m)
                          THEN n.ret.size = -Decimal(m["size"])
                          ELSE Total(n, m["side"], n.ret.price[1])
                                   = Total(Self, m["side"], n.ret.price[1]) + n.ret.size)

\* C20 witness: a done that states no size has just removed one of two
\* bids at price 1 and returned minus its size.
C20_Witness ==
    /\ primitive = "remove"
    /\ ret = Tuple(1, -2)
    /\ Has(bids, 1)
    /\ Len(bids[1]) = 1
    /\ Sum(bids[1]) = 1

====
